---- MODULE Spec2Model ----
(***************************************************************************)
(* Hourly temperature interpolation for weather stations                   *)
(* (analysis/stations/interpolate_hourly_temperatures_for_stations.py).    *)
(*                                                                         *)
(* Two specifications share this module:                                   *)
(*   InterpSpec  the curve interpolator interpolate_hourly_temperatures,   *)
(*               applied to inputs drawn from bounded sets;                *)
(*   Spec        the parallel pipeline process_weather_data: a pool of     *)
(*               process_station_worker tasks, the result queue, the       *)
(*               coordinator's drain loop and the write phase.             *)
(*                                                                         *)
(* Instants are integers counting ticks (TicksPerHour ticks to the hour)   *)
(* from the midnight that starts day 0; a date is a day number.            *)
(* Temperatures are integers (degrees); interpolated values are integers   *)
(* in units of 1/Scale degree.                                             *)
(***************************************************************************)
EXTENDS Integers, Sequences, FiniteSets, TLC

VARIABLES
    call,                   \* arguments of the interpolator call under study
    ret,                    \* its outcome: pending, returned (a list) or raised
    stations,               \* the station list (input of the run)
    cpu_count,              \* mp.cpu_count() of the machine
    task,                   \* position of each station's pool task
    result_queue,           \* manager.Queue(): messages in flight, FIFO
    completed_stations,     \* coordinator's counter
    daily_results_by_date,  \* coordinator's global mapping date_str -> rows
    coord,                  \* coordinator's position in process_weather_data
    timeouts,               \* consecutive result_queue.get timeouts (saturating)
    to_write,               \* date keys the write loop has still to visit
    artifacts,              \* output files written: date_str -> rows
    reported                \* history: the messages each task has put

vars == <<call, ret, stations, cpu_count, task, result_queue,
          completed_stations, daily_results_by_date, coord, timeouts, to_write,
          artifacts, reported>>

interp_vars == <<call, ret>>
pipeline_vars == <<stations, cpu_count, task, result_queue, completed_stations,
                   daily_results_by_date, coord, timeouts, to_write, artifacts,
                   reported>>

----------------------------------------------------------------------------
(* Bounds of the model                                                     *)

TicksPerHour == 2
Scale == 100
MaxStations == 2
MaxCpus == 3
MaxTimeouts == 1
BaseDay == 2
SunriseBackHours == 24
SunriseAheadHours == 3

(* Program constants                                                       *)

LEAP_YEAR == 2020
HOURS_AFTER_NOON == 2
HoursPerDay == 24

DayTicks == HoursPerDay * TicksPerHour
Hour == TicksPerHour

\* datetime.date() and datetime.hour of an instant
DateOf(t) == t \div DayTicks
HourOf(t) == (t % DayTicks) \div TicksPerHour

\* Optional arguments: None is the empty tuple, a given value v is <<v>>
None == <<>>
Some(v) == <<v>>

EmptyMap == [k \in {} |-> 0]

Min2(a, b) == IF a <= b THEN a ELSE b
Max2(a, b) == IF a >= b THEN a ELSE b

----------------------------------------------------------------------------
(* Easing factors.  np.sin(np.pi/2 * t) for t = num/den is approximated    *)
(* in fixed point (weights 0..Scale) by Bhaskara's formula on [0, 2],      *)
(* extended by the sine's symmetry; it is exact at t = 0, 1 and 2.         *)
(* (1 - np.cos(np.pi * t)) / 2 equals sin(pi/2 * t)^2.                     *)

SinArc(x, d) == (Scale * 4 * x * (2 * d - x)) \div (5 * d * d - x * (2 * d - x))

sin_half_pi(num, den) ==
    LET n == IF den < 0 THEN -num ELSE num
        d == IF den < 0 THEN -den ELSE den
        m == n % (4 * d)
    IN  IF m <= 2 * d THEN SinArc(m, d) ELSE -SinArc(m - 2 * d, d)

cos_ease(num, den) ==
    LET s == sin_half_pi(num, den)
    IN  (s * s) \div Scale

----------------------------------------------------------------------------
(* interpolate_hourly_temperatures                                         *)

\* line 96
t_peak_of(noon_dt) == noon_dt + HOURS_AFTER_NOON * Hour

\* lines 101-102 and 105-106: the missing-neighbour fallback
OrDefaultZeroMutant(opt, default) == IF opt = None THEN 0 ELSE opt[1]

or_default(opt, default) == IF opt = None THEN default ELSE opt[1]

\* lines 121 and 133: cosine cooling from one temperature to another
CoolingSignMutant(from_temp, to_temp, num, den) ==
    from_temp * Scale + (from_temp - to_temp) * cos_ease(num, den)

cooling_temp(from_temp, to_temp, num, den) ==
    from_temp * Scale - (from_temp - to_temp) * cos_ease(num, den)

\* line 127: sine warming from today's min to today's max
WarmingSwappedMutant(min_temp, max_temp, num, den) ==
    max_temp * Scale + (min_temp - max_temp) * sin_half_pi(num, den)

warming_temp(min_temp, max_temp, num, den) ==
    min_temp * Scale + (max_temp - min_temp) * sin_half_pi(num, den)

\* line 126: the duration the warming phase is normalised by
WarmingSpanNoLagMutant(sunrise_dt, t_peak_dt) ==
    (t_peak_dt - HOURS_AFTER_NOON * Hour) - sunrise_dt

warming_span(sunrise_dt, t_peak_dt) == t_peak_dt - sunrise_dt

\* lines 117-119, 123-125 and 129-131: the phase an instant falls in, and the
\* elapsed time and the duration its fraction is the quotient of
PhaseOrderMutant(current_dt, c) ==
    IF current_dt <= c.t_peak_dt
    THEN [phase |-> "warming",
          num |-> current_dt - c.sunrise_dt,
          den |-> c.t_peak_dt - c.sunrise_dt]
    ELSE IF current_dt < c.sunrise_dt
    THEN [phase |-> "overnight",
          num |-> current_dt - c.prev_day_t_peak_dt,
          den |-> c.sunrise_dt - c.prev_day_t_peak_dt]
    ELSE [phase |-> "evening",
          num |-> current_dt - c.t_peak_dt,
          den |-> c.next_day_sunrise_dt - c.t_peak_dt]

phase_fraction(current_dt, c) ==
    IF current_dt < c.sunrise_dt
    THEN [phase |-> "overnight",
          num |-> current_dt - c.prev_day_t_peak_dt,
          den |-> c.sunrise_dt - c.prev_day_t_peak_dt]
    ELSE IF current_dt <= c.t_peak_dt
    THEN [phase |-> "warming",
          num |-> current_dt - c.sunrise_dt,
          den |-> warming_span(c.sunrise_dt, c.t_peak_dt)]
    ELSE [phase |-> "evening",
          num |-> current_dt - c.t_peak_dt,
          den |-> c.next_day_sunrise_dt - c.t_peak_dt]

\* lines 117-133: the temperature at one sampled instant.  A phase of zero
\* duration makes the float division raise ZeroDivisionError.
temp_at(current_dt, c) ==
    LET f == phase_fraction(current_dt, c)
    IN  IF f.den = 0 THEN [raised |-> TRUE, temp |-> 0]
        ELSE [raised |-> FALSE,
              temp |-> IF f.phase = "overnight"
                       THEN cooling_temp(c.prev_day_max_temp, c.min_temp, f.num, f.den)
                       ELSE IF f.phase = "warming"
                       THEN warming_temp(c.min_temp, c.max_temp, f.num, f.den)
                       ELSE cooling_temp(c.max_temp, c.next_day_min_temp, f.num, f.den)]

\* lines 115-140: the hourly walk of the window.  hourly_temps is kept as
\* the list of (hour, temp) assignments made, in the order they are made.
RECURSIVE walk(_, _, _)
walk(current_dt, hourly_temps, c) ==
    IF ~(current_dt < c.next_day_sunrise_dt)
    THEN [raised |-> FALSE, hourly_temps |-> hourly_temps]
    ELSE LET t == temp_at(current_dt, c)
         IN  IF t.raised
             THEN [raised |-> TRUE, hourly_temps |-> hourly_temps]
             ELSE walk(current_dt + Hour,
                       IF DateOf(current_dt) = c.base_date
                       THEN Append(hourly_temps,
                                   [hour |-> HourOf(current_dt), temp |-> t.temp])
                       ELSE hourly_temps,
                       c)

\* hourly_temps[hour]: the value last assigned to the key
RECURSIVE lookup(_, _, _)
lookup(hourly_temps, hour, i) ==
    IF i = 0 THEN None
    ELSE IF hourly_temps[i].hour = hour THEN Some(hourly_temps[i].temp)
    ELSE lookup(hourly_temps, hour, i - 1)

\* lines 143-146: the values of the hours present, in hour order
RECURSIVE collect(_, _)
collect(hour, hourly_temps) ==
    IF hour >= HoursPerDay THEN <<>>
    ELSE lookup(hourly_temps, hour, Len(hourly_temps)) \o collect(hour + 1, hourly_temps)

\* lines 75-148
interpolate_hourly_temperatures(min_temp, max_temp, sunrise_dt, noon_dt, prev_day_max_temp, next_day_min_temp) ==
    LET t_peak_dt == t_peak_of(noon_dt)
        c == [min_temp |-> min_temp,
              max_temp |-> max_temp,
              sunrise_dt |-> sunrise_dt,
              base_date |-> DateOf(noon_dt),
              t_peak_dt |-> t_peak_dt,
              prev_day_t_peak_dt |-> t_peak_dt - DayTicks,
              next_day_sunrise_dt |-> sunrise_dt + DayTicks,
              prev_day_max_temp |-> or_default(prev_day_max_temp, max_temp),
              next_day_min_temp |-> or_default(next_day_min_temp, min_temp)]
        w == walk(c.prev_day_t_peak_dt, <<>>, c)
    IN  IF w.raised
        THEN [raised |-> TRUE, result |-> <<>>]
        ELSE [raised |-> FALSE, result |-> collect(0, w.hourly_temps)]

----------------------------------------------------------------------------
(* Dates.  A data file gives dates as "MM-DD", here <<month, day>>;        *)
(* load_station_data places them in LEAP_YEAR; a date is its day number in *)
(* that year (1 = January 1st).  strftime('%m%d') gives the 4-digit key,   *)
(* here the number MMDD.                                                   *)

IsLeap(y) == y % 4 = 0 /\ (y % 100 # 0 \/ y % 400 = 0)

DaysInMonth(m) ==
    IF m = 2 THEN (IF IsLeap(LEAP_YEAR) THEN 29 ELSE 28)
    ELSE IF m \in {4, 6, 9, 11} THEN 30 ELSE 31

RECURSIVE days_before_month(_)
days_before_month(m) ==
    IF m = 1 THEN 0 ELSE days_before_month(m - 1) + DaysInMonth(m - 1)

\* the days before each month, tabulated
days_before_month_of == [m \in 1 .. 12 |-> days_before_month(m)]

\* line 177: pd.to_datetime(date + "-2020", format="%m-%d-%Y")
parse_date(md) == days_before_month_of[md[1]] + md[2]

DaysInYear == days_before_month(12) + DaysInMonth(12)

\* line 289: date.strftime('%m%d'), tabulated over the days of the year
strftime_md_of ==
    [date \in 1 .. DaysInYear |->
        LET m == CHOOSE k \in 1 .. 12 :
                     /\ days_before_month(k) < date
                     /\ date <= days_before_month(k) + DaysInMonth(k)
        IN  m * 100 + (date - days_before_month(m))]

strftime_md(date) == strftime_md_of[date]

\* sorted(...) of a finite set of integers, as a list
RECURSIVE sorted(_)
sorted(S) ==
    IF S = {} THEN <<>>
    ELSE LET least == CHOOSE x \in S : \A y \in S : x <= y
         IN  <<least>> \o sorted(S \ {least})

----------------------------------------------------------------------------
(* Inputs of a run: the station list and the per-station data files        *)

\* a station's data file in data_dir: None when there is none, else Some(rows)
NoFile == None

\* rows of a station's daily series: (date "MM-DD", tasmin, tasmax)
FileEmpty == <<>>
FileOneDay == <<[date |-> <<6, 21>>, tasmin |-> 15, tasmax |-> 28]>>
FileTwoDays == <<[date |-> <<6, 21>>, tasmin |-> 15, tasmax |-> 28],
                [date |-> <<6, 22>>, tasmin |-> 14, tasmax |-> 30]>>
\* a series listed out of date order, with the two ends of the year, the
\* leap day between its neighbours, and a second record for the leap day
FileLeapYear == <<[date |-> <<12, 31>>, tasmin |-> 1, tasmax |-> 6],
                 [date |-> <<1, 1>>, tasmin |-> -2, tasmax |-> 4],
                 [date |-> <<2, 28>>, tasmin |-> 0, tasmax |-> 8],
                 [date |-> <<2, 29>>, tasmin |-> 2, tasmax |-> 11],
                 [date |-> <<3, 1>>, tasmin |-> 3, tasmax |-> 9],
                 [date |-> <<2, 29>>, tasmin |-> 5, tasmax |-> 13]>>
DataFiles == {FileEmpty, FileOneDay, FileTwoDays, FileLeapYear}

\* where the station lies relative to the clock of the machine, which decides
\* what the solar step returns (ephem.localtime is the machine's local time)
Locations == {"berlin", "westward", "eastward", "polar", "arctic"}

\* what is wrong with a station's task, if anything:
\*   "logger"      lines 203-204 raise (before worker_logger is bound)
\*   "station_id"  line 206 raises (the row has no station_id)
\*   "load"        load_station_data raises other than FileNotFoundError
\*   "rows"        the file has no tasmin column: line 239 raises
Faults == {"none", "logger", "station_id", "load", "rows"}

StationRows ==
    {r \in [location : Locations,
            data_file : {NoFile} \cup {Some(f) : f \in DataFiles},
            fault : Faults] :
        /\ r.fault \in {"logger", "station_id", "load"} =>
               r.location = "berlin" /\ r.data_file = Some(FileTwoDays)
        /\ r.fault = "rows" <=> r.data_file = Some(FileOneDay)
        /\ r.fault = "rows" => r.location = "berlin"
        /\ r.location # "berlin" => r.data_file = Some(FileTwoDays)}

StationLists == UNION {[1 .. n -> StationRows] : n \in 0 .. MaxStations}

\* the station_id column: stations are numbered as listed
station_id_of(i) == i

----------------------------------------------------------------------------
(* calculate_sun_positions: what the ephemeris returns, by location.       *)
(* "berlin": sunrise 05:00 and solar noon just after 13:00 on the date.    *)
(* "westward": the machine's clock is nine hours behind the station's, so  *)
(* sunrise falls at 20:00 on the eve and noon just after 04:00.            *)
(* "eastward": the machine's clock is eleven hours ahead of the station's, *)
(* so sunrise falls at 16:00 and noon just after 00:00 of the day after.   *)
(* "polar": the sun never sets on 06-21 and next_rising raises.            *)
(* "arctic": as "berlin", but on 06-22 the next sunrise found falls exactly *)
(* two hours after solar noon, so the warming phase has no duration.       *)

calculate_sun_positions(location, date) ==
    IF location = "polar" /\ date = parse_date(<<6, 21>>)
    THEN [raised |-> TRUE, sunrise_dt |-> 0, noon_dt |-> 0]
    ELSE IF location = "westward"
    THEN [raised |-> FALSE,
          sunrise_dt |-> (date - 1) * DayTicks + 20 * Hour,
          noon_dt |-> date * DayTicks + 4 * Hour + 1]
    ELSE IF location = "eastward"
    THEN [raised |-> FALSE,
          sunrise_dt |-> date * DayTicks + 16 * Hour,
          noon_dt |-> (date + 1) * DayTicks + 1]
    ELSE IF location = "arctic" /\ date = parse_date(<<6, 22>>)
    THEN [raised |-> FALSE,
          sunrise_dt |-> date * DayTicks + 15 * Hour + 1,
          noon_dt |-> date * DayTicks + 13 * Hour + 1]
    ELSE [raised |-> FALSE,
          sunrise_dt |-> date * DayTicks + 5 * Hour,
          noon_dt |-> date * DayTicks + 13 * Hour + 1]

----------------------------------------------------------------------------
(* process_station_worker                                                  *)

\* line 224: station_data['date'].dt.date.unique()
station_dates(data_file) == {parse_date(data_file[i].date) : i \in DOMAIN data_file}

\* station_data[station_data['date'].dt.date == date]
rows_dated(data_file, date) ==
    SelectSeq(data_file, LAMBDA row : parse_date(row.date) = date)

\* lines 243-248 and 251-256: a neighbouring day's temperature, if it has a record
NeighbourColumnSwappedMutant(data_file, date, column) ==
    LET rows == rows_dated(data_file, date)
    IN  IF rows = <<>> THEN None
        ELSE Some(IF column = "tasmax" THEN rows[1].tasmin ELSE rows[1].tasmax)

NeighbourCircularMutant(data_file, date, column) ==
    LET wrapped == IF date < 1 THEN DaysInYear
                   ELSE IF date > DaysInYear THEN 1 ELSE date
        rows == rows_dated(data_file, wrapped)
    IN  IF rows = <<>> THEN None
        ELSE Some(IF column = "tasmax" THEN rows[1].tasmax ELSE rows[1].tasmin)

neighbour_temp(data_file, date, column) ==
    LET rows == rows_dated(data_file, date)
    IN  IF rows = <<>> THEN None
        ELSE Some(IF column = "tasmax" THEN rows[1].tasmax ELSE rows[1].tasmin)

\* lines 234-278: one iteration of the date loop; None when the date is skipped
process_date(location, data_file, date) ==
    LET current_day == rows_dated(data_file, date)[1]
        sun == calculate_sun_positions(location, date)
        hourly == interpolate_hourly_temperatures(
                      current_day.tasmin, current_day.tasmax,
                      sun.sunrise_dt, sun.noon_dt,
                      neighbour_temp(data_file, date - 1, "tasmax"),
                      neighbour_temp(data_file, date + 1, "tasmin"))
    IN  IF sun.raised THEN None
        ELSE IF hourly.raised THEN None
        ELSE Some(hourly.result)

\* lines 229-278: station_results, date -> hourly_temps
StationResultsBreakMutant(location, data_file) ==
    LET dates == station_dates(data_file)
        failed == {d \in dates : process_date(location, data_file, d) = None}
        kept == {d \in dates : \A e \in failed : d < e}
    IN  [d \in kept |-> process_date(location, data_file, d)[1]]

station_results(location, data_file) ==
    LET kept == {d \in station_dates(data_file) :
                    process_date(location, data_file, d) # None}
    IN  [d \in kept |-> process_date(location, data_file, d)[1]]

\* lines 284-286: the row of one date
row_of(station_id, hourly_temps) == [station_id |-> station_id, hours |-> hourly_temps]

\* lines 281-294: daily_results_by_date of the worker, date_str -> list of rows
daily_results_of(station_id, results) ==
    LET keys == {strftime_md(d) : d \in DOMAIN results}
        dates_of(k) == sorted({d \in DOMAIN results : strftime_md(d) = k})
    IN  [k \in keys |->
            [i \in 1 .. Len(dates_of(k)) |-> row_of(station_id, results[dates_of(k)[i]])]]

\* the worker's results for every station row that reaches the date loop,
\* computed once
StationResultsTable ==
    [location \in Locations |->
        [data_file \in DataFiles |-> station_results(location, data_file)]]

\* lines 297-301
SuccessEmptyAsErrorMutant(station_id, daily_results) ==
    [station_id |-> station_id,
     status |-> IF daily_results = EmptyMap THEN "error" ELSE "success",
     daily_results |-> daily_results]

success_message(station_id, daily_results) ==
    [station_id |-> station_id, status |-> "success", daily_results |-> daily_results]

\* lines 215-220 and 305-310
error_message(station_id) ==
    [station_id |-> station_id, status |-> "error", daily_results |-> EmptyMap]

----------------------------------------------------------------------------
(* process_weather_data                                                    *)

\* lines 332-334
NumProcessesNoFloorMutant(cpus) == cpus - 1

num_processes_of(cpus) == IF cpus - 1 < 1 THEN 1 ELSE cpus - 1

\* line 357: the drain loop's condition
DrainOffByOneMutant(completed, total) == completed < total - 1

drain_continues(completed, total) == completed < total

\* lines 371-374: merge one station's rows into the global mapping
MergeNewKeyEmptyMutant(mapping, station_daily_results) ==
    [k \in DOMAIN mapping \cup DOMAIN station_daily_results |->
        IF k \notin DOMAIN mapping THEN <<>>
        ELSE IF k \in DOMAIN station_daily_results
        THEN mapping[k] \o station_daily_results[k]
        ELSE mapping[k]]

MergeOverwriteMutant(mapping, station_daily_results) ==
    [k \in DOMAIN mapping \cup DOMAIN station_daily_results |->
        IF k \in DOMAIN station_daily_results THEN station_daily_results[k]
        ELSE mapping[k]]

merge_results(mapping, station_daily_results) ==
    [k \in DOMAIN mapping \cup DOMAIN station_daily_results |->
        (IF k \in DOMAIN mapping THEN mapping[k] ELSE <<>>)
        \o (IF k \in DOMAIN station_daily_results
            THEN station_daily_results[k] ELSE <<>>)]

\* the interpolator's variables while the pipeline runs
NoCall == [min_temp |-> 0, max_temp |-> 0, sunrise_dt |-> 0, noon_dt |-> 0,
           prev_day_max_temp |-> None, next_day_min_temp |-> None]
NoRet == [state |-> "idle", result |-> <<>>]

Stations == DOMAIN stations
total_stations == Len(stations)

Started(i) == task[i] # "pending"
Ended(i) == task[i] \in {"done", "crashed"}
Active(i) == Started(i) /\ ~Ended(i)

Init ==
    /\ call = NoCall
    /\ ret = NoRet
    /\ stations \in StationLists
    /\ cpu_count \in 1 .. MaxCpus
    /\ task = [i \in DOMAIN stations |-> "pending"]
    /\ result_queue = <<>>
    /\ completed_stations = 0
    /\ daily_results_by_date = EmptyMap
    /\ coord = "drain"
    /\ timeouts = 0
    /\ to_write = <<>>
    /\ artifacts = EmptyMap
    /\ reported = [i \in DOMAIN stations |-> <<>>]

coordinator_vars == <<completed_stations, daily_results_by_date, coord, timeouts,
                      to_write, artifacts>>
input_vars == <<call, ret, stations, cpu_count>>

\* result_queue.put(message) by task i, which then ends
Put(i, message) ==
    /\ result_queue' = Append(result_queue, message)
    /\ reported' = [reported EXCEPT ![i] = Append(@, message)]
    /\ task' = [task EXCEPT ![i] = "done"]

\* lines 303-310: the except clause of the worker.  Its first statement reads
\* worker_logger and station_id; when either is unbound it raises in turn,
\* the exception leaves the task and nothing is put.
ExceptHandler(i, logger_bound, id_bound) ==
    IF logger_bound /\ id_bound
    THEN Put(i, error_message(station_id_of(i)))
    ELSE /\ task' = [task EXCEPT ![i] = "crashed"]
         /\ UNCHANGED <<result_queue, reported>>

\* lines 346-353: a pool process takes the next submitted task
StartTask(i) ==
    /\ task[i] = "pending"
    /\ \A j \in Stations : j < i => Started(j)
    /\ Cardinality({j \in Stations : Active(j)}) < num_processes_of(cpu_count)
    /\ task' = [task EXCEPT ![i] = "running"]
    /\ UNCHANGED <<result_queue, reported, coordinator_vars, input_vars>>

\* lines 203-208: bind worker_logger and station_id
BindNames(i) ==
    /\ task[i] = "running"
    /\ IF stations[i].fault = "logger" THEN ExceptHandler(i, FALSE, FALSE)
       ELSE IF stations[i].fault = "station_id" THEN ExceptHandler(i, TRUE, FALSE)
       ELSE /\ task' = [task EXCEPT ![i] = "bound"]
            /\ UNCHANGED <<result_queue, reported>>
    /\ UNCHANGED <<coordinator_vars, input_vars>>

\* lines 211-221: load the station's data file
LoadDataNoReturnMutant(i) ==
    /\ task[i] = "bound"
    /\ IF stations[i].fault = "load" THEN ExceptHandler(i, TRUE, TRUE)
       ELSE IF stations[i].data_file = NoFile
       THEN /\ result_queue' = result_queue \o <<error_message(station_id_of(i)),
                                                  error_message(station_id_of(i))>>
            /\ reported' = [reported EXCEPT ![i] =
                                @ \o <<error_message(station_id_of(i)),
                                       error_message(station_id_of(i))>>]
            /\ task' = [task EXCEPT ![i] = "done"]
       ELSE /\ task' = [task EXCEPT ![i] = "loaded"]
            /\ UNCHANGED <<result_queue, reported>>
    /\ UNCHANGED <<coordinator_vars, input_vars>>

LoadData(i) ==
    /\ task[i] = "bound"
    /\ IF stations[i].fault = "load" THEN ExceptHandler(i, TRUE, TRUE)
       ELSE IF stations[i].data_file = NoFile
       THEN Put(i, error_message(station_id_of(i)))
       ELSE /\ task' = [task EXCEPT ![i] = "loaded"]
            /\ UNCHANGED <<result_queue, reported>>
    /\ UNCHANGED <<coordinator_vars, input_vars>>

\* lines 224-301: the date loop, the rows, and the report
ProcessDatesPerRecordMutant(i) ==
    /\ task[i] = "loaded"
    /\ IF stations[i].fault = "rows" /\ station_dates(stations[i].data_file[1]) # {}
       THEN ExceptHandler(i, TRUE, TRUE)
       ELSE LET data_file == stations[i].data_file[1]
                results == StationResultsTable[stations[i].location][data_file]
                date_of(k) == CHOOSE d \in DOMAIN results : strftime_md(d) = k
            IN  Put(i, success_message(
                           station_id_of(i),
                           [k \in {strftime_md(d) : d \in DOMAIN results} |->
                               [j \in 1 .. Len(rows_dated(data_file, date_of(k))) |->
                                   row_of(station_id_of(i), results[date_of(k)])]]))
    /\ UNCHANGED <<coordinator_vars, input_vars>>

ProcessDates(i) ==
    /\ task[i] = "loaded"
    /\ IF stations[i].fault = "rows" /\ station_dates(stations[i].data_file[1]) # {}
       THEN ExceptHandler(i, TRUE, TRUE)
       ELSE Put(i, success_message(
                       station_id_of(i),
                       daily_results_of(
                           station_id_of(i),
                           StationResultsTable[stations[i].location][stations[i].data_file[1]])))
    /\ UNCHANGED <<coordinator_vars, input_vars>>

\* lines 360-374: a message is read from the queue
ReceiveResult ==
    /\ coord = "drain"
    /\ drain_continues(completed_stations, total_stations)
    /\ result_queue # <<>>
    /\ LET result == Head(result_queue)
       IN  /\ result_queue' = Tail(result_queue)
           /\ completed_stations' = completed_stations + 1
           /\ daily_results_by_date' =
                  IF result.status = "success"
                  THEN merge_results(daily_results_by_date, result.daily_results)
                  ELSE daily_results_by_date
    /\ timeouts' = 0
    /\ UNCHANGED <<task, reported, coord, to_write, artifacts, input_vars>>

\* lines 360 and 381-383: the read times out on an empty queue
PollTimeoutCountsMutant ==
    /\ coord = "drain"
    /\ drain_continues(completed_stations, total_stations)
    /\ result_queue = <<>>
    /\ timeouts' = Min2(timeouts + 1, MaxTimeouts)
    /\ completed_stations' = completed_stations + 1
    /\ UNCHANGED <<task, result_queue, reported,
                   daily_results_by_date, coord, to_write, artifacts, input_vars>>

PollTimeout ==
    /\ coord = "drain"
    /\ drain_continues(completed_stations, total_stations)
    /\ result_queue = <<>>
    /\ timeouts' = Min2(timeouts + 1, MaxTimeouts)
    /\ UNCHANGED <<task, result_queue, reported, completed_stations,
                   daily_results_by_date, coord, to_write, artifacts, input_vars>>

\* line 357: the loop condition fails
LeaveDrain ==
    /\ coord = "drain"
    /\ ~drain_continues(completed_stations, total_stations)
    /\ coord' = "wait"
    /\ UNCHANGED <<task, result_queue, reported, completed_stations,
                   daily_results_by_date, timeouts, to_write, artifacts, input_vars>>

\* lines 388-393: every task has ended; the write loop starts on the sorted keys
WaitAll ==
    /\ coord = "wait"
    /\ \A i \in Stations : Ended(i)
    /\ coord' = "write"
    /\ to_write' = sorted(DOMAIN daily_results_by_date)
    /\ UNCHANGED <<task, result_queue, reported, completed_stations,
                   daily_results_by_date, timeouts, artifacts, input_vars>>

\* lines 393-401: one iteration of the write loop
WriteArtifact ==
    /\ coord = "write"
    /\ to_write # <<>>
    /\ LET date_str == Head(to_write)
           date_results == daily_results_by_date[date_str]
       IN  artifacts' = IF date_results # <<>>
                        THEN [k \in DOMAIN artifacts \cup {date_str} |->
                                 IF k = date_str THEN date_results ELSE artifacts[k]]
                        ELSE artifacts
    /\ to_write' = Tail(to_write)
    /\ UNCHANGED <<task, result_queue, reported, completed_stations,
                   daily_results_by_date, coord, timeouts, input_vars>>

\* lines 403-405
Complete ==
    /\ coord = "write"
    /\ to_write = <<>>
    /\ coord' = "complete"
    /\ UNCHANGED <<task, result_queue, reported, completed_stations,
                   daily_results_by_date, timeouts, to_write, artifacts, input_vars>>

Next ==
    \/ \E i \in Stations : StartTask(i)
    \/ \E i \in Stations : BindNames(i)
    \/ \E i \in Stations : LoadData(i)
    \/ \E i \in Stations : ProcessDates(i)
    \/ ReceiveResult
    \/ PollTimeout
    \/ LeaveDrain
    \/ WaitAll
    \/ WriteArtifact
    \/ Complete

Spec == Init /\ [][Next]_vars

----------------------------------------------------------------------------
(* Properties of the pipeline (Spec)                                       *)

DrainEnded == coord \in {"wait", "write", "complete"}
ReportedSuccess(i) == reported[i] # <<>> /\ reported[i][1].status = "success"
ReportedError(i) == reported[i] # <<>> /\ reported[i][1].status = "error"

\* the (date, station id, profile) triples a mapping date_str -> rows holds
Triples(mapping) ==
    UNION {{<<k, mapping[k][j].station_id, mapping[k][j].hours>> :
               j \in DOMAIN mapping[k]} : k \in DOMAIN mapping}

\* the triples the input determines: for every station whose task meets no
\* fault and finds its file, one triple per date that yields a profile
InputTriples ==
    UNION {LET results == StationResultsTable[stations[i].location][stations[i].data_file[1]]
           IN  {<<strftime_md(d), station_id_of(i), results[d]>> : d \in DOMAIN results} :
           i \in {j \in Stations :
                     stations[j].fault = "none" /\ stations[j].data_file # NoFile}}

RowCount(mapping, k) == IF k \in DOMAIN mapping THEN Len(mapping[k]) ELSE 0

ReportedKeys == UNION {DOMAIN reported[i][1].daily_results :
                          i \in {j \in Stations : reported[j] # <<>>}}

\* C1: the drain loop terminates: while it still waits for a report, one
\* can still come (a message is queued, or a task has yet to end).
C1_DrainTerminates ==
    (coord = "drain" /\ drain_continues(completed_stations, total_stations)) =>
        (result_queue # <<>> \/ \E i \in Stations : ~Ended(i))

\* C2: a task in which a statement raised has put exactly one message, of
\* status 'error' with empty daily_results, for its station.
C2_CrashReported ==
    \A i \in Stations :
        (Ended(i) /\ stations[i].fault # "none") =>
            reported[i] = <<error_message(station_id_of(i))>>

\* C3: when the drain loop has ended, the set of (date, station id, profile)
\* triples in the global mapping is the one the input determines, whatever
\* the interleaving of workers and queue arrivals was.
C3_TriplesDeterministic ==
    DrainEnded => Triples(daily_results_by_date) = InputTriples

\* C3 witness: the drain loop ended with two rows under one date, the row of
\* the later-listed station first.
C3_Witness ==
    /\ DrainEnded
    /\ \E k \in DOMAIN daily_results_by_date :
          /\ Len(daily_results_by_date[k]) >= 2
          /\ daily_results_by_date[k][1].station_id >
                 daily_results_by_date[k][2].station_id

\* C4: at the end, every date's artifact has as many rows as stations
\* reported 'success' with a profile for that date, and a station that
\* reported an error has no row in any artifact.
C4_RowsPerDate ==
    coord = "complete" =>
        /\ \A k \in ReportedKeys \cup DOMAIN artifacts :
              RowCount(artifacts, k) =
                  Cardinality({i \in Stations :
                                  /\ ReportedSuccess(i)
                                  /\ k \in DOMAIN reported[i][1].daily_results})
        /\ \A i \in Stations :
              ReportedError(i) =>
                  \A k \in DOMAIN artifacts : \A j \in DOMAIN artifacts[k] :
                      artifacts[k][j].station_id # station_id_of(i)

\* C4 witness: a run ended in which a station with no data file reported an
\* error and another station's dates still got their artifacts.
C4_Witness ==
    /\ coord = "complete"
    /\ \E i \in Stations : stations[i].data_file = NoFile /\ ReportedError(i)
    /\ Cardinality(DOMAIN artifacts) >= 2

\* C5: the write phase starts, and an artifact is written, only when
\* completed_stations equals total_stations and every task has reported;
\* once an artifact is written the global mapping no longer changes.
C5_WriteAfterAllReported ==
    [][/\ ((coord # "write" /\ coord' = "write") \/ artifacts' # artifacts) =>
              /\ completed_stations = total_stations
              /\ \A i \in Stations : reported[i] # <<>>
       /\ artifacts # EmptyMap => daily_results_by_date' = daily_results_by_date]_vars

\* C5 witness: the write loop is under way, one artifact written and
\* another still to write.
C5_Witness ==
    coord = "write" /\ artifacts # EmptyMap /\ to_write # <<>>

\* C6: every key of the global mapping has a non-empty row list, and at the
\* end of the run the dates with an artifact are exactly the mapping's keys.
C6_ArtifactPerKey ==
    /\ \A k \in DOMAIN daily_results_by_date : daily_results_by_date[k] # <<>>
    /\ coord = "complete" => DOMAIN artifacts = DOMAIN daily_results_by_date

\* C6 witness: a run ended with artifacts for two dates.
C6_Witness ==
    /\ coord = "complete"
    /\ Cardinality(DOMAIN daily_results_by_date) >= 2
    /\ DOMAIN artifacts = DOMAIN daily_results_by_date

\* C7: every row of an artifact carries 24 hourly values, hour_0..hour_23.
C7_Rows24 ==
    \A k \in DOMAIN artifacts : \A j \in DOMAIN artifacts[k] :
        Len(artifacts[k][j].hours) = HoursPerDay

----------------------------------------------------------------------------
(* InterpSpec: the interpolator applied to inputs from bounded sets        *)

MinTemps == {10}
MaxTemps == {5, 20}
NeighbourTemps == {None, Some(0), Some(25)}

\* solar noon anywhere on day BaseDay; sunrise from SunriseBackHours before
\* noon to SunriseAheadHours after it, so that every ordering of sunrise,
\* noon and noon + 2h occurs
NoonInstants == {BaseDay * DayTicks + k : k \in 0 .. DayTicks - 1}
SunriseInstants(noon_dt) ==
    {noon_dt + k : k \in -(SunriseBackHours * Hour) .. SunriseAheadHours * Hour}

\* a pair with max_temp below min_temp is called without neighbours
CallInputs ==
    {c \in [min_temp : MinTemps, max_temp : MaxTemps,
            sunrise_dt : 0 .. (BaseDay + 2) * DayTicks, noon_dt : NoonInstants,
            prev_day_max_temp : NeighbourTemps, next_day_min_temp : NeighbourTemps] :
        /\ c.sunrise_dt \in SunriseInstants(c.noon_dt)
        /\ c.max_temp < c.min_temp =>
               (c.prev_day_max_temp = None /\ c.next_day_min_temp = None)}

PipelineIdle ==
    /\ stations = <<>>
    /\ cpu_count = 1
    /\ task = <<>>
    /\ result_queue = <<>>
    /\ completed_stations = 0
    /\ daily_results_by_date = EmptyMap
    /\ coord = "idle"
    /\ timeouts = 0
    /\ to_write = <<>>
    /\ artifacts = EmptyMap
    /\ reported = <<>>

InterpInit ==
    /\ call \in CallInputs
    /\ ret = [state |-> "pending", result |-> <<>>]
    /\ PipelineIdle

Interpolated ==
    interpolate_hourly_temperatures(call.min_temp, call.max_temp, call.sunrise_dt,
                                    call.noon_dt, call.prev_day_max_temp,
                                    call.next_day_min_temp)

Outcome(r) ==
    IF r.raised THEN [state |-> "raised", result |-> <<>>]
    ELSE [state |-> "returned", result |-> r.result]

\* one call of the interpolator: it returns its list, or raises
\* ZeroDivisionError
InterpCall ==
    /\ ret.state = "pending"
    /\ ret' = Outcome(Interpolated)
    /\ UNCHANGED <<call, pipeline_vars>>

InterpNext == InterpCall

InterpSpec == InterpInit /\ [][InterpNext]_vars

----------------------------------------------------------------------------
(* Properties of the interpolator (InterpSpec)                             *)

Returned == ret.state = "returned"
SunriseNoonOrdered ==
    call.sunrise_dt < call.noon_dt /\ call.noon_dt < call.sunrise_dt + DayTicks
PeakInstant == call.noon_dt + HOURS_AFTER_NOON * Hour
PrevMax == IF call.prev_day_max_temp = None THEN call.max_temp
           ELSE call.prev_day_max_temp[1]
NextMin == IF call.next_day_min_temp = None THEN call.min_temp
           ELSE call.next_day_min_temp[1]
LowestTemp == Min2(Min2(call.min_temp, call.max_temp), Min2(PrevMax, NextMin))
HighestTemp == Max2(Max2(call.min_temp, call.max_temp), Max2(PrevMax, NextMin))

\* C8: for sunrise < noon < sunrise + 24h the returned list has one value
\* for each hour 0..23 of the target date (length 24).
C8_FullDay == (Returned /\ SunriseNoonOrdered) => Len(ret.result) = HoursPerDay

\* C9: for sunrise < noon < sunrise + 24h every returned value lies between
\* the smallest and the largest of min_temp, max_temp, prev_max and next_min
\* (after the missing-neighbour fallback).
C9_WithinExtremes ==
    (Returned /\ SunriseNoonOrdered) =>
        \A i \in 1 .. Len(ret.result) :
            /\ LowestTemp * Scale <= ret.result[i]
            /\ ret.result[i] <= HighestTemp * Scale

\* C9 witness: an ordered call with distinct neighbours returned a full day
\* holding a value strictly inside the range and both extremes.
C9_Witness ==
    /\ Returned /\ SunriseNoonOrdered
    /\ call.min_temp < call.max_temp
    /\ PrevMax > call.max_temp /\ NextMin < call.min_temp
    /\ Len(ret.result) = HoursPerDay
    /\ \E i \in 1 .. Len(ret.result) :
          LowestTemp * Scale < ret.result[i] /\ ret.result[i] < HighestTemp * Scale

\* C10 as claimed: whenever the peak instant falls on the target date, the
\* value the profile holds for the hour of the peak instant is max_temp.
C10_PeakIsMax ==
    (Returned /\ DateOf(PeakInstant) = DateOf(call.noon_dt)) =>
        /\ Len(ret.result) > HourOf(PeakInstant)
        /\ ret.result[HourOf(PeakInstant) + 1] = call.max_temp * Scale

\* C10 amended: the same, for calls whose peak instant lies inside its own
\* window, sunrise < noon + 2h < sunrise + 24h.
C10_PeakIsMaxInWindow ==
    (/\ Returned
     /\ DateOf(PeakInstant) = DateOf(call.noon_dt)
     /\ call.sunrise_dt < PeakInstant
     /\ PeakInstant < call.sunrise_dt + DayTicks) =>
        /\ Len(ret.result) > HourOf(PeakInstant)
        /\ ret.result[HourOf(PeakInstant) + 1] = call.max_temp * Scale

\* C10 witness: such a call returned, with a maximum that differs from every
\* other anchor temperature.
C10_Witness ==
    /\ Returned
    /\ DateOf(PeakInstant) = DateOf(call.noon_dt)
    /\ call.sunrise_dt < PeakInstant
    /\ PeakInstant < call.sunrise_dt + DayTicks
    /\ call.max_temp > call.min_temp
    /\ PrevMax # call.max_temp /\ NextMin # call.max_temp
    /\ ret.result[HourOf(PeakInstant) + 1] = call.max_temp * Scale

\* C11 as claimed: for every sunrise before noon, the value the profile
\* holds for the hour of the sunrise is min_temp.
C11_SunriseIsMin ==
    (Returned /\ call.sunrise_dt < call.noon_dt) =>
        /\ Len(ret.result) > HourOf(call.sunrise_dt)
        /\ ret.result[HourOf(call.sunrise_dt) + 1] = call.min_temp * Scale

\* the walk samples the instants a whole number of hours from noon + 2h
SunriseSampled == (PeakInstant - call.sunrise_dt) % Hour = 0

\* hour 0 of the target date is sampled: the previous day's peak instant
\* lies before 01:00 of the target date
NoonBefore23 == call.noon_dt % DayTicks < 23 * Hour

\* C11 amended: the same, for a sunrise on the target date that lies a whole
\* number of hours before noon + 2h, noon being earlier than 23:00.
C11_SunriseIsMinWhenSampled ==
    (/\ Returned
     /\ call.sunrise_dt < call.noon_dt
     /\ DateOf(call.sunrise_dt) = DateOf(call.noon_dt)
     /\ SunriseSampled
     /\ NoonBefore23) =>
        /\ Len(ret.result) > HourOf(call.sunrise_dt)
        /\ ret.result[HourOf(call.sunrise_dt) + 1] = call.min_temp * Scale

\* C11 witness: such a call returned, sunrise and noon both off the full
\* hour, with a minimum that differs from every other anchor temperature.
C11_Witness ==
    /\ Returned
    /\ call.sunrise_dt < call.noon_dt
    /\ DateOf(call.sunrise_dt) = DateOf(call.noon_dt)
    /\ SunriseSampled
    /\ NoonBefore23
    /\ call.sunrise_dt % Hour # 0
    /\ call.max_temp > call.min_temp
    /\ PrevMax # call.min_temp /\ NextMin # call.min_temp
    /\ ret.result[HourOf(call.sunrise_dt) + 1] = call.min_temp * Scale

\* the (hour, temp) assignments the walk of the call makes to hourly_temps
CallWalk ==
    walk(PeakInstant - DayTicks, <<>>,
         [min_temp |-> call.min_temp,
          max_temp |-> call.max_temp,
          sunrise_dt |-> call.sunrise_dt,
          base_date |-> DateOf(call.noon_dt),
          t_peak_dt |-> PeakInstant,
          prev_day_t_peak_dt |-> PeakInstant - DayTicks,
          next_day_sunrise_dt |-> call.sunrise_dt + DayTicks,
          prev_day_max_temp |-> PrevMax,
          next_day_min_temp |-> NextMin]).hourly_temps

\* lines 93-106: the instants and anchor temperatures of the call
CallContext ==
    [min_temp |-> call.min_temp,
     max_temp |-> call.max_temp,
     sunrise_dt |-> call.sunrise_dt,
     base_date |-> DateOf(call.noon_dt),
     t_peak_dt |-> PeakInstant,
     prev_day_t_peak_dt |-> PeakInstant - DayTicks,
     next_day_sunrise_dt |-> call.sunrise_dt + DayTicks,
     prev_day_max_temp |-> PrevMax,
     next_day_min_temp |-> NextMin]

\* lines 113-115 and 140: the instants the walk of the call steps through
SampledInstants ==
    {t \in PeakInstant - DayTicks .. call.sunrise_dt + DayTicks - 1 :
        (t - (PeakInstant - DayTicks)) % Hour = 0}

\* C12: every retained value is at its own hour index: for every hour h the
\* walk assigns, position h of the returned list (column hour_h of the row)
\* holds the value computed at hour h.
C12_OwnHourIndex ==
    Returned =>
        LET hourly_temps == CallWalk
        IN  \A j \in 1 .. Len(hourly_temps) :
                /\ Len(ret.result) > hourly_temps[j].hour
                /\ ret.result[hourly_temps[j].hour + 1] = hourly_temps[j].temp

\* C13: a call with no previous-day maximum has the outcome of the call
\* with prev_day_max_temp = max_temp, and a call with no next-day minimum
\* the outcome of the call with next_day_min_temp = min_temp.
C13_FallbackEquivalent ==
    ret.state # "pending" =>
        /\ call.prev_day_max_temp = None =>
               ret = Outcome(interpolate_hourly_temperatures(
                                 call.min_temp, call.max_temp, call.sunrise_dt,
                                 call.noon_dt, Some(call.max_temp),
                                 call.next_day_min_temp))
        /\ call.next_day_min_temp = None =>
               ret = Outcome(interpolate_hourly_temperatures(
                                 call.min_temp, call.max_temp, call.sunrise_dt,
                                 call.noon_dt, call.prev_day_max_temp,
                                 Some(call.min_temp)))

\* C13 witness: a call with neither neighbour returned a full day whose
\* first and last hours lie in the two overnight phases.
C13_Witness ==
    /\ Returned /\ SunriseNoonOrdered
    /\ call.prev_day_max_temp = None /\ call.next_day_min_temp = None
    /\ call.min_temp < call.max_temp
    /\ Len(ret.result) = HoursPerDay
    /\ DateOf(call.sunrise_dt) = DateOf(call.noon_dt)
    /\ HourOf(call.sunrise_dt) >= 2
    /\ DateOf(PeakInstant) = DateOf(call.noon_dt)
    /\ HourOf(PeakInstant) <= 21
    /\ ret.result[1] > call.min_temp * Scale
    /\ ret.result[HoursPerDay] < call.max_temp * Scale

----------------------------------------------------------------------------
(* Properties of the worker and the run (Spec)                             *)

HasRecord(data_file, date) ==
    \E j \in DOMAIN data_file : parse_date(data_file[j].date) = date
\* .iloc[0]: the first record of the date in file order
RecordOf(data_file, date) ==
    data_file[CHOOSE j \in DOMAIN data_file :
                  /\ parse_date(data_file[j].date) = date
                  /\ \A n \in 1 .. j - 1 : parse_date(data_file[n].date) # date]

\* the interpolator's call for date D with both neighbours given: the
\* maximum of the record dated D - 1 or else D's own, the minimum of the
\* record dated D + 1 or else D's own
NeighbourCall(location, data_file, D) ==
    LET today == RecordOf(data_file, D)
        sun == calculate_sun_positions(location, D)
    IN  interpolate_hourly_temperatures(
            today.tasmin, today.tasmax, sun.sunrise_dt, sun.noon_dt,
            Some(IF HasRecord(data_file, D - 1)
                 THEN RecordOf(data_file, D - 1).tasmax ELSE today.tasmax),
            Some(IF HasRecord(data_file, D + 1)
                 THEN RecordOf(data_file, D + 1).tasmin ELSE today.tasmin))

NeighbourProfileTable ==
    [location \in Locations |->
        [data_file \in DataFiles |->
            [D \in station_dates(data_file) |->
                NeighbourCall(location, data_file, D).result]]]

\* the dates for which the solar step or the interpolation raises
DateFailsTable ==
    [location \in Locations |->
        [data_file \in DataFiles |->
            [D \in station_dates(data_file) |->
                \/ calculate_sun_positions(location, D).raised
                \/ NeighbourCall(location, data_file, D).raised]]]

\* C14: every date D a station reports has the profile computed with the
\* maximum of the record dated D - 1 and the minimum of the record dated
\* D + 1, each replaced by D's own when there is no such record.
C14_NeighbourDays ==
    \A i \in Stations :
        ReportedSuccess(i) =>
            LET data_file == stations[i].data_file[1]
                daily_results == reported[i][1].daily_results
            IN  \A D \in station_dates(data_file) :
                    strftime_md(D) \in DOMAIN daily_results =>
                        daily_results[strftime_md(D)][1].hours =
                            NeighbourProfileTable[stations[i].location][data_file][D]

\* C14 witness: a station reported a date that has a record the day before
\* and none the day after, and a date with both.
C14_Witness ==
    \E i \in Stations :
        /\ ReportedSuccess(i)
        /\ LET data_file == stations[i].data_file[1]
               daily_results == reported[i][1].daily_results
           IN  /\ \E D \in station_dates(data_file) :
                      /\ HasRecord(data_file, D - 1) /\ ~HasRecord(data_file, D + 1)
                      /\ strftime_md(D) \in DOMAIN daily_results
               /\ \E D \in station_dates(data_file) :
                      /\ HasRecord(data_file, D - 1) /\ HasRecord(data_file, D + 1)
                      /\ strftime_md(D) \in DOMAIN daily_results

\* the location with the same solar times on which no date fails
SucceedingTwin(location) ==
    IF location \in {"polar", "arctic"} THEN "berlin" ELSE location

\* a task that meets no fault and finds its data file
ReachesDateLoop(i) == stations[i].fault = "none" /\ stations[i].data_file # NoFile

\* C16: a date whose solar step or interpolation raises is absent from the
\* station's results, every other date has the profile it has when no date
\* fails, and the station reports 'success'.
C16_FailureContained ==
    \A i \in Stations :
        (Ended(i) /\ ReachesDateLoop(i)) =>
            /\ Len(reported[i]) = 1
            /\ ReportedSuccess(i)
            /\ LET location == stations[i].location
                   data_file == stations[i].data_file[1]
                   daily_results == reported[i][1].daily_results
               IN  \A D \in station_dates(data_file) :
                       IF DateFailsTable[location][data_file][D]
                       THEN strftime_md(D) \notin DOMAIN daily_results
                       ELSE /\ strftime_md(D) \in DOMAIN daily_results
                            /\ daily_results[strftime_md(D)][1].hours =
                                   StationResultsTable[SucceedingTwin(location)][data_file][D]

\* C16 witness: a station whose first date fails in the solar step and one
\* whose second date fails in the interpolation have both reported the
\* other date.
C16_Witness ==
    /\ \E i \in Stations :
          /\ Ended(i) /\ ReachesDateLoop(i) /\ ReportedSuccess(i)
          /\ calculate_sun_positions(stations[i].location, parse_date(<<6, 21>>)).raised
          /\ DOMAIN reported[i][1].daily_results = {622}
    /\ \E i \in Stations :
          /\ Ended(i) /\ ReachesDateLoop(i) /\ ReportedSuccess(i)
          /\ HasRecord(stations[i].data_file[1], parse_date(<<6, 22>>))
          /\ DateFailsTable[stations[i].location][stations[i].data_file[1]][parse_date(<<6, 22>>)]
          /\ DOMAIN reported[i][1].daily_results = {621}

\* a station whose task raises or finds no data file
Failing(i) == stations[i].fault # "none" \/ stations[i].data_file = NoFile

\* the triples of a mapping that belong to station i
RowsOfStation(mapping, i) == {t \in Triples(mapping) : t[2] = station_id_of(i)}

\* the triples station i's own row of the station list determines
OwnTriples(i) ==
    LET results == StationResultsTable[stations[i].location][stations[i].data_file[1]]
    IN  {<<strftime_md(d), station_id_of(i), results[d]>> : d \in DOMAIN results}

AllEndedAndDrained == (\A i \in Stations : Ended(i)) /\ result_queue = <<>>

\* C17: a failing station does not change its siblings' output: once every
\* task has ended and the queue is drained, the mapping holds for every
\* non-failing station exactly the rows its own input determines and the
\* coordinator is not held in the drain loop; the artifacts of a completed
\* run hold the same rows.
C17_SiblingsUnaffected ==
    /\ AllEndedAndDrained =>
           /\ \A i \in Stations :
                  ~Failing(i) => RowsOfStation(daily_results_by_date, i) = OwnTriples(i)
           /\ ~(coord = "drain" /\ drain_continues(completed_stations, total_stations))
    /\ coord = "complete" =>
           \A i \in Stations :
               ~Failing(i) => RowsOfStation(artifacts, i) = OwnTriples(i)

NoProfileInput ==
    \A i \in Stations :
        Failing(i) \/ OwnTriples(i) = {}

\* the run has completed, or a step other than a timed-out read can be taken
CompletedOrProgressing ==
    \/ coord = "complete"
    \/ \E i \in Stations : ~Ended(i)
    \/ result_queue # <<>>
    \/ coord \in {"wait", "write"}
    \/ coord = "drain" /\ ~drain_continues(completed_stations, total_stations)

\* C19: when no station yields a profile, the run writes no artifact and
\* goes on to complete.
C19_NoProfilesNoArtifacts ==
    NoProfileInput => (artifacts = EmptyMap /\ CompletedOrProgressing)

\* the order of a task's positions
TaskRank(position) ==
    CASE position = "pending" -> 0
      [] position = "running" -> 1
      [] position = "bound" -> 2
      [] position = "loaded" -> 3
      [] OTHER -> 4

\* C20: a task only moves forward from pending through running to its end,
\* puts at most one message, puts it in the step that ends it, and once
\* ended neither moves nor puts again.
C20_TaskLifecycle ==
    [][\A i \in Stations :
           /\ Len(reported'[i]) <= 1
           /\ task'[i] # task[i] => TaskRank(task'[i]) > TaskRank(task[i])
           /\ (task[i] = "pending" /\ task'[i] # task[i]) => task'[i] = "running"
           /\ Ended(i) => (task'[i] = task[i] /\ reported'[i] = reported[i])
           /\ reported'[i] # reported[i] => task'[i] = "done"]_vars

\* C20 witness: one task ended with its success message, another ended
\* without a message, and the coordinator has read the one message.
C20_Witness ==
    /\ \E i \in Stations : task[i] = "done" /\ ReportedSuccess(i)
    /\ \E i \in Stations : task[i] = "crashed" /\ reported[i] = <<>>
    /\ completed_stations = 1

\* C21: a read of the queue that times out is a no-op poll: the step
\* leaves completed_stations, the global mapping and the queue as they
\* were, and the coordinator stays in the drain loop.
C21_TimeoutIsNoOp ==
    [][timeouts' > timeouts =>
           /\ completed_stations' = completed_stations
           /\ daily_results_by_date' = daily_results_by_date
           /\ result_queue' = result_queue
           /\ task' = task
           /\ artifacts' = artifacts
           /\ coord' = "drain"
           /\ drain_continues(completed_stations', total_stations)]_vars

\* C21 witness: after a first result was merged, the read has timed out
\* MaxTimeouts times in a row and the loop still runs.
C21_Witness ==
    /\ coord = "drain"
    /\ timeouts = MaxTimeouts
    /\ completed_stations >= 1
    /\ daily_results_by_date # EmptyMap
    /\ drain_continues(completed_stations, total_stations)

\* sequence a is an initial part of sequence b
IsPrefix(a, b) == Len(a) <= Len(b) /\ \A j \in 1 .. Len(a) : a[j] = b[j]

\* the rows a message holds under a key
MessageRows(message, k) ==
    IF k \in DOMAIN message.daily_results THEN message.daily_results[k] ELSE <<>>

\* C22: the global mapping changes only in a coordinator step that takes a
\* 'success' message off the queue, and only by appending that message's
\* rows under their keys: no task moves in that step, and no key or row
\* present before is removed or replaced.
C22_AppendOnlyByCoordinator ==
    [][daily_results_by_date' # daily_results_by_date =>
           /\ coord = "drain"
           /\ result_queue # <<>>
           /\ result_queue' = Tail(result_queue)
           /\ Head(result_queue).status = "success"
           /\ task' = task /\ reported' = reported
           /\ DOMAIN daily_results_by_date' =
                  DOMAIN daily_results_by_date \cup DOMAIN Head(result_queue).daily_results
           /\ \A k \in DOMAIN daily_results_by_date' :
                  daily_results_by_date'[k] =
                      (IF k \in DOMAIN daily_results_by_date
                       THEN daily_results_by_date[k] ELSE <<>>)
                      \o MessageRows(Head(result_queue), k)
           /\ \A k \in DOMAIN daily_results_by_date :
                  IsPrefix(daily_results_by_date[k], daily_results_by_date'[k])]_vars

\* C22 witness: still in the drain loop, the mapping holds a key to which a
\* second station's row was appended and a key with one row.
C22_Witness ==
    /\ coord = "drain"
    /\ \E k \in DOMAIN daily_results_by_date : Len(daily_results_by_date[k]) >= 2
    /\ \E k \in DOMAIN daily_results_by_date : Len(daily_results_by_date[k]) = 1

\* the dates of a file that have more than one record
RepeatedDatesTable ==
    [data_file \in DataFiles |->
        {D \in station_dates(data_file) : Len(rows_dated(data_file, D)) > 1}]

\* C23: each date's row list in the global mapping holds at most one row
\* per station; a station reports one row per date, and for a date with
\* several records the profile computed from the first of them.
C23_OneRowPerStation ==
    /\ \A k \in DOMAIN daily_results_by_date :
           \A a, b \in DOMAIN daily_results_by_date[k] :
               a # b => daily_results_by_date[k][a].station_id #
                            daily_results_by_date[k][b].station_id
    /\ \A i \in Stations :
           ReportedSuccess(i) =>
               LET data_file == stations[i].data_file[1]
                   daily_results == reported[i][1].daily_results
               IN  /\ \A k \in DOMAIN daily_results : Len(daily_results[k]) = 1
                   /\ \A D \in RepeatedDatesTable[data_file] :
                          /\ strftime_md(D) \in DOMAIN daily_results
                          /\ daily_results[strftime_md(D)][1].hours =
                                 NeighbourProfileTable[stations[i].location][data_file][D]

\* C23 witness: two stations whose files hold two records for 02-29 have
\* both been merged, and the mapping has two rows under that date.
C23_Witness ==
    /\ \A i \in Stations :
           ReportedSuccess(i) /\ RepeatedDatesTable[stations[i].data_file[1]] # {}
    /\ 229 \in DOMAIN daily_results_by_date
    /\ Len(daily_results_by_date[229]) = 2

\* C24: the pool has max(1, cpu_count - 1) processes: never more tasks are
\* at work than that, and a pending task whose predecessors have started
\* can start whenever fewer are; there is exactly one task per row of the
\* station list.
C24_PoolSize ==
    /\ num_processes_of(cpu_count) = Max2(1, cpu_count - 1)
    /\ Cardinality({i \in Stations : Active(i)}) <= Max2(1, cpu_count - 1)
    /\ \A i \in Stations :
           (/\ task[i] = "pending"
            /\ \A j \in Stations : j < i => Started(j)
            /\ Cardinality({j \in Stations : Active(j)}) < Max2(1, cpu_count - 1)) =>
               ENABLED StartTask(i)
    /\ DOMAIN task = 1 .. Len(stations)

\* C24 witness: on a single processing unit one task is at work and the
\* next one waits for the only pool process.
C24_Witness ==
    /\ cpu_count = 1
    /\ Cardinality({i \in Stations : Active(i)}) = 1
    /\ \E i \in Stations : task[i] = "pending"

----------------------------------------------------------------------------
(* Further properties of the interpolator (InterpSpec)                     *)

\* C25: a warming phase of zero duration is handled: a call whose sunrise
\* coincides with the peak instant does not raise and returns a profile.
C25_ZeroPhaseHandled ==
    (ret.state # "pending" /\ call.sunrise_dt = PeakInstant) =>
        (Returned /\ ret.result # <<>>)

\* C26: for every instant the walk steps through, whatever the order of
\* sunrise and noon + 2h, the instant is given the overnight phase before
\* sunrise, the warming phase from sunrise to the peak inclusive, the
\* evening phase after, and where that phase has a duration other than zero
\* its fraction lies in [0, 1].
C26_FractionInUnitInterval ==
    ret.state # "pending" =>
        LET c == CallContext
        IN  \A t \in SampledInstants :
                LET f == phase_fraction(t, c)
                IN  /\ f.phase = (IF t < call.sunrise_dt THEN "overnight"
                                  ELSE IF t <= PeakInstant THEN "warming"
                                  ELSE "evening")
                    /\ f.den # 0 => (f.den > 0 /\ 0 <= f.num /\ f.num <= f.den)

\* C26 witness: a call whose sunrise lies after the peak instant returned
\* values, and so did a call's walk that passes through all three phases.
C26_Witness ==
    /\ Returned /\ ret.result # <<>>
    /\ call.sunrise_dt > PeakInstant
    /\ \E t \in SampledInstants : t < call.sunrise_dt
    /\ \E t \in SampledInstants : t >= call.sunrise_dt

\* C27: the phases meet at their boundaries.  Whenever a phase has a
\* duration other than zero, the overnight phase is prev_max at fraction 0
\* and min_temp at fraction 1, the warming phase is min_temp at fraction 0
\* and max_temp at fraction 1, the evening phase is max_temp at fraction 0
\* and next_min at fraction 1; and the curve the walk samples takes prev_max
\* at the previous peak, min_temp at sunrise and max_temp at the peak when
\* these instants open the phase they bound.
C27_ContinuousAtBoundaries ==
    ret.state # "pending" =>
        LET c == CallContext
            overnight == c.sunrise_dt - c.prev_day_t_peak_dt
            warming == c.t_peak_dt - c.sunrise_dt
            evening == c.next_day_sunrise_dt - c.t_peak_dt
        IN  /\ overnight # 0 =>
                  /\ cooling_temp(PrevMax, call.min_temp, 0, overnight)
                         = PrevMax * Scale
                  /\ cooling_temp(PrevMax, call.min_temp, overnight, overnight)
                         = call.min_temp * Scale
            /\ warming # 0 =>
                  /\ warming_temp(call.min_temp, call.max_temp, 0, warming)
                         = call.min_temp * Scale
                  /\ warming_temp(call.min_temp, call.max_temp, warming, warming)
                         = call.max_temp * Scale
            /\ evening # 0 =>
                  /\ cooling_temp(call.max_temp, NextMin, 0, evening)
                         = call.max_temp * Scale
                  /\ cooling_temp(call.max_temp, NextMin, evening, evening)
                         = NextMin * Scale
            /\ c.prev_day_t_peak_dt < c.sunrise_dt =>
                  temp_at(c.prev_day_t_peak_dt, c)
                      = [raised |-> FALSE, temp |-> PrevMax * Scale]
            /\ c.sunrise_dt < c.t_peak_dt =>
                  /\ temp_at(c.sunrise_dt, c)
                         = [raised |-> FALSE, temp |-> call.min_temp * Scale]
                  /\ temp_at(c.t_peak_dt, c)
                         = [raised |-> FALSE, temp |-> call.max_temp * Scale]

\* C27 witness: a returned day with both neighbours given, all four anchor
\* temperatures of the two joints different, and sunrise and peak among the
\* sampled instants, in this order.
C27_Witness ==
    /\ Returned /\ Len(ret.result) = 24
    /\ call.prev_day_max_temp # None /\ call.next_day_min_temp # None
    /\ PrevMax # call.min_temp /\ call.min_temp # call.max_temp
    /\ call.max_temp # NextMin
    /\ call.sunrise_dt \in SampledInstants
    /\ PeakInstant - DayTicks < call.sunrise_dt
    /\ call.sunrise_dt < PeakInstant

-----------------------------------------------------------------------------
(* Further properties of the worker (Spec)                                 *)

\* lines 244 and 252 read on the calendar of the year 2020: the month and day
\* before and after a month and day, None beyond either end of the year
PrevMonthDay(md) ==
    IF md[2] > 1 THEN Some(<<md[1], md[2] - 1>>)
    ELSE IF md[1] > 1 THEN Some(<<md[1] - 1, DaysInMonth(md[1] - 1)>>)
    ELSE None

NextMonthDay(md) ==
    IF md[2] < DaysInMonth(md[1]) THEN Some(<<md[1], md[2] + 1>>)
    ELSE IF md[1] < 12 THEN Some(<<md[1] + 1, 1>>)
    ELSE None

\* lines 245-248 and 253-256 by month and day: the first record in file order
\* that bears the month and day, if any
RecordsOfMonthDay(data_file, md) ==
    IF md = None THEN <<>>
    ELSE SelectSeq(data_file, LAMBDA row : row.date = md[1])

\* lines 238-270 by month and day: the interpolator's call for the records
\* of one month and day, with the neighbours the calendar gives
CalendarCall(location, data_file, md) ==
    LET today == RecordsOfMonthDay(data_file, Some(md))[1]
        before == RecordsOfMonthDay(data_file, PrevMonthDay(md))
        after == RecordsOfMonthDay(data_file, NextMonthDay(md))
        sun == calculate_sun_positions(location, parse_date(md))
    IN  interpolate_hourly_temperatures(
            today.tasmin, today.tasmax, sun.sunrise_dt, sun.noon_dt,
            Some(IF before = <<>> THEN today.tasmax ELSE before[1].tasmax),
            Some(IF after = <<>> THEN today.tasmin ELSE after[1].tasmin))

CalendarProfileTable ==
    [location \in Locations |->
        [data_file \in DataFiles |->
            [md \in {data_file[j].date : j \in DOMAIN data_file} |->
                CalendarCall(location, data_file, md).result]]]

\* C28: the profile reported under a month and day is computed with the
\* maximum of the record of the calendar day before and the minimum of the
\* record of the calendar day after in the year 2020, 02-29 included; 01-01
\* has no day before and 12-31 no day after, so these take their own
\* maximum and minimum even when the file has records for 12-31 and 01-01.
C28_NoWrapAcrossYear ==
    \A i \in Stations :
        ReportedSuccess(i) =>
            LET data_file == stations[i].data_file[1]
                daily_results == reported[i][1].daily_results
            IN  \A j \in DOMAIN data_file :
                    LET md == data_file[j].date
                        date_str == md[1] * 100 + md[2]
                    IN  date_str \in DOMAIN daily_results =>
                            daily_results[date_str][1].hours =
                                CalendarProfileTable[stations[i].location][data_file][md]

\* C28 witness: a station whose file has records for 12-31, 01-01, 02-28,
\* 02-29 and 03-01 reported a profile for each of them.
C28_Witness ==
    \E i \in Stations :
        /\ ReportedSuccess(i)
        /\ {<<12, 31>>, <<1, 1>>, <<2, 28>>, <<2, 29>>, <<3, 1>>}
               \subseteq {stations[i].data_file[1][j].date :
                              j \in DOMAIN stations[i].data_file[1]}
        /\ {1231, 101, 228, 229, 301}
               \subseteq DOMAIN reported[i][1].daily_results

\* C29: every date D a station reports a profile under is the calendar
\* date of the solar noon returned for D, the date whose hours the
\* interpolator retains.
C29_ProfileDateIsKeyDate ==
    \A i \in Stations :
        ReportedSuccess(i) =>
            LET data_file == stations[i].data_file[1]
                daily_results == reported[i][1].daily_results
            IN  \A D \in station_dates(data_file) :
                    strftime_md(D) \in DOMAIN daily_results =>
                        DateOf(calculate_sun_positions(stations[i].location, D).noon_dt) = D

====
